---- MODULE Spec2Model ----
(***************************************************************************)
(* The sensor data analysis service of                                     *)
(* OceanMonitoringSystem/PythonAnalysisService/analysis_server.py:         *)
(* SensorDataAnalysisServicer.AnalyzeSensorData, its helper                *)
(* _calculate_data_quality, and the thread pool of serve() that runs       *)
(* several calls of the handler at once.                                   *)
(*                                                                         *)
(* Floating point.  A double is a record [k, n, d]: k = "fin" is the       *)
(* finite value n/d (d > 0, in lowest terms), k = "nan", "pinf", "ninf"    *)
(* are NaN and the two infinities.  The finite range is -FloatMax ..       *)
(* FloatMax: an addition whose exact result leaves it yields an infinity,  *)
(* as IEEE-754 does.  Rounding inside the range is not modelled (finite    *)
(* results are exact rationals).  A standard deviation is kept as          *)
(* k = "sqrt", the non-negative root of n/d.                               *)
(***************************************************************************)
EXTENDS Integers, Sequences, FiniteSets, TLC

\* ------------------------------------------------------------------ bounds
\* Largest finite double, scaled down.
FloatMax == 100
\* Longest batch of a single call (specification Spec).
MaxLen == 4
\* Number of calls in flight at once (serve() gives the pool 20 workers) and
\* longest batch of such a call (specification ConcSpec).
NCalls == 2
ConcLen == 1
\* Largest original_count tried on _calculate_data_quality (specification QSpec).
MaxCount == 150

\* ------------------------------------------------------------ float values
RECURSIVE GCD(_, _)
GCD(a, b) == IF b = 0 THEN a ELSE GCD(b, a % b)

Abs(x) == IF x < 0 THEN -x ELSE x

\* The finite double n/d, in lowest terms with a positive denominator.
Fin(n, d) ==
    LET s == IF d < 0 THEN -1 ELSE 1
        g == GCD(Abs(n), Abs(d))
    IN  [k |-> "fin", n |-> (s * n) \div g, d |-> (s * d) \div g]

NaN == [k |-> "nan", n |-> 0, d |-> 1]
PInf == [k |-> "pinf", n |-> 0, d |-> 1]
NInf == [k |-> "ninf", n |-> 0, d |-> 1]
\* The placeholder held by a local name that is not bound yet.
Unbound == [k |-> "unbound", n |-> 0, d |-> 1]

isnan(v) == v.k = "nan"
isinf(v) == v.k \in {"pinf", "ninf"}

\* x < y on doubles that are not NaN.
FloatLess(x, y) ==
    CASE x.k = "ninf" -> y.k # "ninf"
      [] x.k = "pinf" -> FALSE
      [] OTHER -> CASE y.k = "ninf" -> FALSE
                    [] y.k = "pinf" -> TRUE
                    [] OTHER -> x.n * y.d < y.n * x.d
FloatLeq(x, y) == ~FloatLess(y, x)

\* The exact rational operations behind Python's Fraction arithmetic.
RatAdd(x, y) == Fin(x.n * y.d + y.n * x.d, x.d * y.d)
RatSub(x, y) == Fin(x.n * y.d - y.n * x.d, x.d * y.d)
RatMul(x, y) == Fin(x.n * y.n, x.d * y.d)
RatDiv(x, y) == Fin(x.n * y.d, x.d * y.n)

\* A finite exact result as a double: outside the finite range it is an infinity.
ToFloat(x) ==
    IF x.n > FloatMax * x.d THEN PInf
    ELSE IF x.n < -FloatMax * x.d THEN NInf
    ELSE x

\* float + float and float - float.
FloatAdd(x, y) ==
    CASE isnan(x) \/ isnan(y) -> NaN
      [] isinf(x) /\ isinf(y) -> IF x.k = y.k THEN x ELSE NaN
      [] isinf(x) -> x
      [] isinf(y) -> y
      [] OTHER -> ToFloat(RatAdd(x, y))
FloatNeg(x) ==
    CASE x.k = "pinf" -> NInf
      [] x.k = "ninf" -> PInf
      [] x.k = "nan" -> NaN
      [] OTHER -> Fin(-x.n, x.d)
FloatSub(x, y) == FloatAdd(x, FloatNeg(y))
\* float * float and float / float on finite operands (divisor not zero).
FloatMul(x, y) == ToFloat(RatMul(x, y))
FloatDiv(x, y) == ToFloat(RatDiv(x, y))
\* float / 2
FloatHalf(x) == IF x.k = "fin" THEN Fin(x.n, 2 * x.d) ELSE x

\* The builtins min(a, b) and max(a, b): the first argument wins a tie.
min2(a, b) == IF FloatLess(b, a) THEN b ELSE a
max2(a, b) == IF FloatLess(a, b) THEN b ELSE a

\* ------------------------------------------------ the statistics functions
\* min(list) and max(list) of a non-empty list.
RECURSIVE MinOf(_)
MinOf(xs) == IF Len(xs) = 1 THEN xs[1] ELSE min2(xs[1], MinOf(Tail(xs)))
RECURSIVE MaxOf(_)
MaxOf(xs) == IF Len(xs) = 1 THEN xs[1] ELSE max2(xs[1], MaxOf(Tail(xs)))

\* The exact sum of a list of finite doubles (statistics._sum).
RECURSIVE ExactSum(_)
ExactSum(xs) == IF xs = <<>> THEN Fin(0, 1) ELSE RatAdd(xs[1], ExactSum(Tail(xs)))

\* statistics.mean: the exact sum over n, converted to a double.
Mean(xs) == RatDiv(ExactSum(xs), Fin(Len(xs), 1))

\* sorted(list)
RECURSIVE Insert(_, _)
Insert(x, xs) ==
    IF xs = <<>> THEN <<x>>
    ELSE IF FloatLess(x, xs[1]) THEN <<x>> \o xs
    ELSE <<xs[1]>> \o Insert(x, Tail(xs))
RECURSIVE Sorted(_)
Sorted(xs) == IF xs = <<>> THEN <<>> ELSE Insert(xs[1], Sorted(Tail(xs)))

\* statistics.median: the middle element, or (data[i - 1] + data[i]) / 2 in
\* float arithmetic when the count is even.
Median(xs) ==
    LET data == Sorted(xs)
        n == Len(data)
        i == n \div 2
    IN  IF n % 2 = 1 THEN data[i + 1]
        ELSE FloatHalf(FloatAdd(data[i], data[i + 1]))

\* The exact sum of squared deviations from the mean (statistics._ss).
RECURSIVE SumSq(_, _)
SumSq(xs, m) ==
    IF xs = <<>> THEN Fin(0, 1)
    ELSE LET dev == RatSub(xs[1], m)
         IN  RatAdd(RatMul(dev, dev), SumSq(Tail(xs), m))

\* The exact sample variance ss / (n - 1), for n > 1.
MeanSquare(xs) ==
    LET m == Mean(xs)
    IN  RatDiv(SumSq(xs, m), Fin(Len(xs) - 1, 1))

\* The interpreters the service can run on differ in statistics.stdev:
\* "float_variance" converts the variance to a double and takes math.sqrt of it
\* (OverflowError when the variance is outside the finite range);
\* "exact_sqrt" takes the root of the exact fraction (OverflowError only when
\* the root itself is outside the finite range).
Runtimes == {"float_variance", "exact_sqrt"}

\* Whether statistics.stdev raises OverflowError on xs under runtime rt.
StdevRaises(xs, rt) ==
    LET mss == MeanSquare(xs)
    IN  IF rt = "float_variance"
        THEN mss.n > FloatMax * mss.d
        ELSE mss.n > FloatMax * FloatMax * mss.d

\* statistics.stdev when it returns: the root of the sample variance.
Stdev(xs) ==
    LET mss == MeanSquare(xs)
    IN  [k |-> "sqrt", n |-> mss.n, d |-> mss.d]

\* ------------------------------------------------- _calculate_data_quality
\* score *= data_completeness, when original_count > 0.
CompletenessPenalty(score, n, original_count) ==
    IF original_count > 0
    THEN FloatMul(score, FloatDiv(Fin(n, 1), Fin(original_count, 1)))
    ELSE score

\* Variant: the stricter test first, so that fewer than 5 values cost 0.4.
SmallSamplePenaltyStrict(score, n) ==
    IF n < 5 THEN FloatMul(score, Fin(4, 10))
    ELSE IF n < 10 THEN FloatMul(score, Fin(7, 10))
    ELSE score

\* The if / elif on len(values): the first test that matches is the one taken.
SmallSamplePenalty(score, n) ==
    IF n < 10 THEN FloatMul(score, Fin(7, 10))
    ELSE IF n < 5 THEN FloatMul(score, Fin(4, 10))
    ELSE score

\* Variant: the bonus granted from 10 values on.
VolumeBonusAtTen(score, n) ==
    IF n >= 10 THEN min2(Fin(10, 1), FloatMul(score, Fin(11, 10)))
    ELSE score

\* score = min(10.0, score * 1.1), when len(values) >= 100.
VolumeBonus(score, n) ==
    IF n >= 100 THEN min2(Fin(10, 1), FloatMul(score, Fin(11, 10)))
    ELSE score

\* max(0.0, min(10.0, score))
Clamp(score) == max2(Fin(0, 1), min2(Fin(10, 1), score))

\* Variant: the bonus and the result left unclamped.
calculate_data_quality_unclamped(values, original_count) ==
    LET n == Len(values)
        score == SmallSamplePenalty(
                     CompletenessPenalty(Fin(10, 1), n, original_count), n)
    IN  IF n >= 100 THEN FloatMul(score, Fin(11, 10)) ELSE score

calculate_data_quality(values, original_count) ==
    LET n == Len(values)
    IN  Clamp(VolumeBonus(SmallSamplePenalty(
            CompletenessPenalty(Fin(10, 1), n, original_count), n), n))

\* --------------------------------------------------------------- the state
VARIABLES
    runtime,        \* the interpreter the server process runs on
    calls,          \* the calls the worker pool is running
    request,        \* per call: the request [data_type, values]
    pc,             \* per call: the handler's position
    bound,          \* per call: the local names bound so far
    values, clean_values,
    avg, min_val, max_val, count, median, std_dev,
    data_range, coefficient_of_variation, quality_score,
    code, details,  \* per call: the gRPC context's status code and details
    response,       \* per call: the message the handler returned
    q_args, q_score \* _calculate_data_quality applied on its own

vars == <<runtime, calls, request, pc, bound, values, clean_values, avg, min_val,
          max_val, count, median, std_dev, data_range, coefficient_of_variation,
          quality_score, code, details, response, q_args, q_score>>

locals == <<values, clean_values, avg, min_val, max_val, count, median, std_dev,
            data_range, coefficient_of_variation, quality_score>>
qvars == <<q_args, q_score>>

\* The readings a batch is made of: zero, ordinary values, the two extreme
\* finite values, and the three non-finite ones.
Readings == {Fin(0, 1), Fin(5, 1), Fin(7, 1), Fin(-FloatMax, 1), Fin(FloatMax, 1),
             NaN, PInf, NInf}
ConcReadings == {Fin(5, 1), NaN}
DataTypes == {"temperature", "unlisted"}

SeqsUpTo(S, n) == UNION {[1..m -> S] : m \in 0..n}

\* data_type is read by the log calls only: the first label goes with every
\* batch, the others with the batches shorter than MaxLen.
Requests ==
    [data_type : {"temperature"}, values : SeqsUpTo(Readings, MaxLen)]
        \cup [data_type : DataTypes, values : SeqsUpTo(Readings, MaxLen - 1)]
ConcRequests == [data_type : {"temperature"}, values : SeqsUpTo(ConcReadings, ConcLen)]

\* SensorDataAnalysisResponse(): every field at its protobuf default.
EmptyResponse ==
    [average |-> Fin(0, 1), min |-> Fin(0, 1), max |-> Fin(0, 1),
     std_dev |-> Fin(0, 1), count |-> 0, median |-> Fin(0, 1)]

\* The state of the calls when the pool has accepted them: nothing bound, the
\* context's code unset (gRPC reports OK), no details.
InitCalls(cs, reqs) ==
    /\ runtime \in Runtimes
    /\ calls = cs
    /\ request \in [cs -> reqs]
    /\ pc = [c \in cs |-> "validate"]
    /\ bound = [c \in cs |-> {}]
    /\ values = [c \in cs |-> <<>>]
    /\ clean_values = [c \in cs |-> <<>>]
    /\ avg = [c \in cs |-> Unbound]
    /\ min_val = [c \in cs |-> Unbound]
    /\ max_val = [c \in cs |-> Unbound]
    /\ count = [c \in cs |-> 0]
    /\ median = [c \in cs |-> Unbound]
    /\ std_dev = [c \in cs |-> Unbound]
    /\ data_range = [c \in cs |-> Unbound]
    /\ coefficient_of_variation = [c \in cs |-> Unbound]
    /\ quality_score = [c \in cs |-> Unbound]
    /\ code = [c \in cs |-> "OK"]
    /\ details = [c \in cs |-> ""]
    /\ response = [c \in cs |-> EmptyResponse]

NoQuality ==
    /\ q_args = [n |-> 0, original_count |-> 0]
    /\ q_score = Unbound

\* One call at a time.
Init == InitCalls({1}, Requests) /\ NoQuality
\* NCalls calls on the thread pool at once.
ConcInit == InitCalls(1..NCalls, ConcRequests) /\ NoQuality

\* --------------------------------------------------------- the handler
\* Variant: every failure reported as INVALID_ARGUMENT, the except clause's too.
AbortInvalidArgument(c, status, text) ==
    /\ code' = [code EXCEPT ![c] = "INVALID_ARGUMENT"]
    /\ details' = [details EXCEPT ![c] = text]
    /\ response' = [response EXCEPT ![c] = EmptyResponse]
    /\ pc' = [pc EXCEPT ![c] = "done"]

\* Variant: the empty message returned without a status code on the context.
AbortNoCode(c, status, text) ==
    /\ details' = [details EXCEPT ![c] = text]
    /\ response' = [response EXCEPT ![c] = EmptyResponse]
    /\ pc' = [pc EXCEPT ![c] = "done"]
    /\ UNCHANGED code

\* context.set_code(status); context.set_details(text);
\* return SensorDataAnalysisResponse()
Abort(c, status, text) ==
    /\ code' = [code EXCEPT ![c] = status]
    /\ details' = [details EXCEPT ![c] = text]
    /\ response' = [response EXCEPT ![c] = EmptyResponse]
    /\ pc' = [pc EXCEPT ![c] = "done"]

\* Variant: the emptiness test left out.
NoValuesNever(req) == FALSE

\* not request.values
NoValues(req) == req.values = <<>>

Validate(c) ==
    /\ pc[c] = "validate"
    /\ IF NoValues(request[c])
       THEN /\ Abort(c, "INVALID_ARGUMENT", "No values provided for analysis")
            /\ UNCHANGED <<bound, locals>>
       ELSE /\ values' = [values EXCEPT ![c] = request[c].values]
            /\ bound' = [bound EXCEPT ![c] = @ \cup {"values"}]
            /\ pc' = [pc EXCEPT ![c] = "clean"]
            /\ UNCHANGED <<clean_values, avg, min_val, max_val, count, median,
                           std_dev, data_range, coefficient_of_variation,
                           quality_score, code, details, response>>
    /\ UNCHANGED <<runtime, calls, request, qvars>>

\* Variant: the filter written `if v and not (...)`, which also drops zeros.
RECURSIVE CleanTruthy(_)
CleanTruthy(vs) ==
    IF vs = <<>> THEN <<>>
    ELSE IF vs[1] # Fin(0, 1) /\ ~(isnan(vs[1]) \/ isinf(vs[1]))
         THEN <<vs[1]>> \o CleanTruthy(Tail(vs))
    ELSE CleanTruthy(Tail(vs))

\* Variant: only NaN removed, the infinities kept.
RECURSIVE CleanNaNOnly(_)
CleanNaNOnly(vs) ==
    IF vs = <<>> THEN <<>>
    ELSE IF ~isnan(vs[1]) THEN <<vs[1]>> \o CleanNaNOnly(Tail(vs))
    ELSE CleanNaNOnly(Tail(vs))

\* [v for v in values if not (math.isnan(v) or math.isinf(v))]
RECURSIVE Clean(_)
Clean(vs) ==
    IF vs = <<>> THEN <<>>
    ELSE IF ~(isnan(vs[1]) \/ isinf(vs[1])) THEN <<vs[1]>> \o Clean(Tail(vs))
    ELSE Clean(Tail(vs))

CleanValues(c) ==
    /\ pc[c] = "clean"
    /\ clean_values' = [clean_values EXCEPT ![c] = Clean(values[c])]
    /\ bound' = [bound EXCEPT ![c] = @ \cup {"clean_values"}]
    /\ pc' = [pc EXCEPT ![c] = "check_clean"]
    /\ UNCHANGED <<runtime, calls, request, values, avg, min_val, max_val, count,
                   median, std_dev, data_range, coefficient_of_variation,
                   quality_score, code, details, response, qvars>>

CheckClean(c) ==
    /\ pc[c] = "check_clean"
    /\ IF clean_values[c] = <<>>
       THEN Abort(c, "INVALID_ARGUMENT", "No valid values found after cleaning data")
       ELSE /\ pc' = [pc EXCEPT ![c] = "statistics"]
            /\ UNCHANGED <<code, details, response>>
    /\ UNCHANGED <<runtime, calls, request, bound, locals, qvars>>

BasicStatistics(c) ==
    /\ pc[c] = "statistics"
    /\ avg' = [avg EXCEPT ![c] = Mean(clean_values[c])]
    /\ min_val' = [min_val EXCEPT ![c] = MinOf(clean_values[c])]
    /\ max_val' = [max_val EXCEPT ![c] = MaxOf(clean_values[c])]
    /\ count' = [count EXCEPT ![c] = Len(clean_values[c])]
    /\ median' = [median EXCEPT ![c] = Median(clean_values[c])]
    /\ bound' = [bound EXCEPT ![c] = @ \cup {"avg", "min_val", "max_val", "count", "median"}]
    /\ pc' = [pc EXCEPT ![c] = "std_dev"]
    /\ UNCHANGED <<runtime, calls, request, values, clean_values, std_dev, data_range,
                   coefficient_of_variation, quality_score, code, details, response,
                   qvars>>

\* std_dev = 0.0; if count > 1: std_dev = statistics.stdev(clean_values).
\* An OverflowError of stdev is caught by the handler's except clause.
StandardDeviation(c) ==
    /\ pc[c] = "std_dev"
    /\ IF count[c] > 1 /\ StdevRaises(clean_values[c], runtime)
       THEN /\ Abort(c, "INTERNAL", "Analysis failed: OverflowError")
            /\ std_dev' = [std_dev EXCEPT ![c] = Fin(0, 1)]
       ELSE /\ std_dev' = [std_dev EXCEPT ![c] =
                    IF count[c] > 1 THEN Stdev(clean_values[c]) ELSE Fin(0, 1)]
            /\ pc' = [pc EXCEPT ![c] = "insights"]
            /\ UNCHANGED <<code, details, response>>
    /\ bound' = [bound EXCEPT ![c] = @ \cup {"std_dev"}]
    /\ UNCHANGED <<runtime, calls, request, values, clean_values, avg, min_val,
                   max_val, count, median, data_range, coefficient_of_variation,
                   quality_score, qvars>>

\* (std_dev / avg * 100) if avg != 0 else 0.  Float division and
\* multiplication do not raise for a non-zero divisor; the value is only
\* logged, and is kept as the expression it is computed from.
CoefficientOfVariation(sd, mean) ==
    IF mean # Fin(0, 1)
    THEN [k |-> "percent_of", n |-> sd.n * mean.d, d |-> sd.d * mean.n]
    ELSE Fin(0, 1)

Insights(c) ==
    /\ pc[c] = "insights"
    /\ data_range' = [data_range EXCEPT ![c] = FloatSub(max_val[c], min_val[c])]
    /\ coefficient_of_variation' = [coefficient_of_variation EXCEPT ![c] =
            CoefficientOfVariation(std_dev[c], avg[c])]
    /\ bound' = [bound EXCEPT ![c] = @ \cup {"data_range", "coefficient_of_variation"}]
    /\ pc' = [pc EXCEPT ![c] = "quality"]
    /\ UNCHANGED <<runtime, calls, request, values, clean_values, avg, min_val,
                   max_val, count, median, std_dev, quality_score, code, details,
                   response, qvars>>

\* quality_score = self._calculate_data_quality(clean_values, len(values))
Quality(c) ==
    /\ pc[c] = "quality"
    /\ quality_score' = [quality_score EXCEPT ![c] =
            calculate_data_quality(clean_values[c], Len(values[c]))]
    /\ bound' = [bound EXCEPT ![c] = @ \cup {"quality_score"}]
    /\ pc' = [pc EXCEPT ![c] = "respond"]
    /\ UNCHANGED <<runtime, calls, request, values, clean_values, avg, min_val,
                   max_val, count, median, std_dev, data_range,
                   coefficient_of_variation, code, details, response, qvars>>

\* Variant: the quality score added to the message as a seventh field.
BuildResponseWithQuality(c) ==
    [average |-> avg[c], min |-> min_val[c], max |-> max_val[c],
     std_dev |-> std_dev[c], count |-> count[c], median |-> median[c],
     quality_score |-> quality_score[c]]

\* Variant: the statistics kept in one place shared by the calls, so that a
\* call reads what another call left there.
BuildResponseShared(c) ==
    LET o == IF calls = {c} THEN c ELSE CHOOSE x \in calls : x # c
    IN  [average |-> avg[o], min |-> min_val[o], max |-> max_val[o],
         std_dev |-> std_dev[o], count |-> count[o], median |-> median[o]]

\* SensorDataAnalysisResponse(average=avg, min=min_val, max=max_val,
\*                            std_dev=std_dev, count=count, median=median)
BuildResponse(c) ==
    [average |-> avg[c], min |-> min_val[c], max |-> max_val[c],
     std_dev |-> std_dev[c], count |-> count[c], median |-> median[c]]

Respond(c) ==
    /\ pc[c] = "respond"
    /\ response' = [response EXCEPT ![c] = BuildResponse(c)]
    /\ pc' = [pc EXCEPT ![c] = "done"]
    /\ UNCHANGED <<runtime, calls, request, bound, locals, code, details, qvars>>

\* --------------------------------- _calculate_data_quality on its own
\* The arguments are the number of clean values and original_count, with
\* 0 <= len(values) <= original_count; no call is in flight.
QInit ==
    /\ InitCalls({}, Requests)
    /\ q_args \in {a \in [n : 0..MaxCount, original_count : 0..MaxCount] :
                      a.n <= a.original_count}
    /\ q_score = Unbound

ApplyQuality ==
    /\ q_score = Unbound
    /\ q_score' = calculate_data_quality([i \in 1..q_args.n |-> Fin(0, 1)],
                                         q_args.original_count)
    /\ UNCHANGED <<runtime, calls, request, pc, bound, locals, code, details,
                   response, q_args>>

\* ------------------------------------------------------ specifications
\* The pool runs one step of any call it holds.
Next ==
    \/ \E c \in calls : Validate(c)
    \/ \E c \in calls : CleanValues(c)
    \/ \E c \in calls : CheckClean(c)
    \/ \E c \in calls : BasicStatistics(c)
    \/ \E c \in calls : StandardDeviation(c)
    \/ \E c \in calls : Insights(c)
    \/ \E c \in calls : Quality(c)
    \/ \E c \in calls : Respond(c)

QNext == ApplyQuality

Spec == Init /\ [][Next]_vars
ConcSpec == ConcInit /\ [][Next]_vars
QSpec == QInit /\ [][QNext]_vars

\* ------------------------------------------------------------ the claims
Done(c) == pc[c] = "done"
Succeeded(c) == Done(c) /\ code[c] = "OK"
AllNonFinite(vs) == \A i \in 1..Len(vs) : isnan(vs[i]) \/ isinf(vs[i])
StatisticsNames == {"avg", "min_val", "max_val", "count", "median", "std_dev",
                    "data_range", "coefficient_of_variation", "quality_score"}

\* C1: a call whose request has no values, whatever its data_type, never gets
\* past the first check: it binds no local (no cleaning, no statistics), and
\* when it has ended its status is INVALID_ARGUMENT with a detail text and
\* the message it returned holds no statistics.
C1_EmptyIsInvalidArgument ==
    \A c \in calls :
        request[c].values = <<>> =>
            /\ pc[c] \in {"validate", "done"}
            /\ bound[c] = {}
            /\ Done(c) => /\ code[c] = "INVALID_ARGUMENT"
                          /\ details[c] # ""
                          /\ response[c] = EmptyResponse

C1_Witness ==
    \E c \in calls :
        /\ Done(c)
        /\ request[c].values = <<>>
        /\ request[c].data_type = "unlisted"

\* C2: a call whose request is not empty and holds only NaN and infinities
\* ends after the cleaning step with status INVALID_ARGUMENT: the cleaned
\* batch is bound and empty, no statistic is ever bound, and the message
\* returned holds no statistics.
C2_AllNonFiniteIsInvalidArgument ==
    \A c \in calls :
        (request[c].values # <<>> /\ AllNonFinite(request[c].values)) =>
            /\ pc[c] \in {"validate", "clean", "check_clean", "done"}
            /\ bound[c] \cap StatisticsNames = {}
            /\ Done(c) => /\ code[c] = "INVALID_ARGUMENT"
                          /\ details[c] # ""
                          /\ "clean_values" \in bound[c]
                          /\ clean_values[c] = <<>>
                          /\ response[c] = EmptyResponse

C2_Witness ==
    \E c \in calls :
        /\ Done(c)
        /\ request[c].values = <<NaN, PInf, NInf>>
        /\ code[c] = "INVALID_ARGUMENT"

\* The six statistics of the cleaned batch of vs, computed in one go.
StatisticsOf(vs) ==
    LET cv == Clean(vs)
    IN  [average |-> Mean(cv), min |-> MinOf(cv), max |-> MaxOf(cv),
         std_dev |-> IF Len(cv) > 1 THEN Stdev(cv) ELSE Fin(0, 1),
         count |-> Len(cv), median |-> Median(cv)]

\* C3: a call that has ended is in exactly one of two cases, told apart by
\* the status code: status OK with no detail and a message whose six fields
\* are the statistics of the cleaned batch (never the all-default message);
\* or status INVALID_ARGUMENT or INTERNAL with a detail text and the
\* all-default message (no field populated).  A call that has not ended has
\* status OK and has returned nothing.
C3_TaggedOutcomes ==
    \A c \in calls :
        IF Done(c)
        THEN \/ /\ code[c] = "OK"
                /\ details[c] = ""
                /\ Clean(request[c].values) # <<>>
                /\ response[c] = StatisticsOf(request[c].values)
                /\ response[c] # EmptyResponse
             \/ /\ code[c] \in {"INVALID_ARGUMENT", "INTERNAL"}
                /\ details[c] # ""
                /\ response[c] = EmptyResponse
        ELSE code[c] = "OK" /\ details[c] = "" /\ response[c] = EmptyResponse

\* A success all of whose statistics are zero: still told apart from a failure.
C3_Witness ==
    \E c \in calls :
        /\ Succeeded(c)
        /\ request[c].values = <<Fin(0, 1), NaN>>
        /\ response[c].average = Fin(0, 1)
        /\ response[c].count = 1

\* C4 as stated: the message returned by a successful call carries the quality
\* score of the batch.
C4_ResponseCarriesQuality ==
    \A c \in calls :
        Succeeded(c) =>
            /\ "quality_score" \in DOMAIN response[c]
            /\ response[c].quality_score = quality_score[c]

\* C4 amended: a successful call has computed the quality score of its batch
\* (from the cleaned values and the original length), but the message it
\* returns carries exactly average, min, max, std_dev, count and median.
C4_QualityComputedNotReturned ==
    \A c \in calls :
        Succeeded(c) =>
            /\ "quality_score" \in bound[c]
            /\ quality_score[c] =
                   calculate_data_quality(Clean(request[c].values),
                                          Len(request[c].values))
            /\ DOMAIN response[c] =
                   {"average", "min", "max", "std_dev", "count", "median"}
            /\ response[c] = StatisticsOf(request[c].values)

C4_Witness ==
    \E c \in calls :
        /\ Succeeded(c)
        /\ request[c].values = <<Fin(5, 1), Fin(7, 1), NaN>>
        /\ quality_score[c] = Fin(14, 3)

\* 10.0 * (n / original_count), the score before the size of the batch counts.
CompleteScore(n, original_count) ==
    IF original_count > 0 THEN Fin(10 * n, original_count) ELSE Fin(10, 1)

\* C5 as stated: fewer than 5 clean values multiply the score by 0.4 (not by
\* 0.7), 5 to 9 clean values by 0.7, and 10 or more by nothing.
C5_StricterPenaltyWins ==
    \A c \in calls :
        "quality_score" \in bound[c] =>
            LET n == Len(clean_values[c])
                base == CompleteScore(n, Len(values[c]))
            IN  /\ n < 5 => quality_score[c] = RatMul(base, Fin(4, 10))
                /\ (5 <= n /\ n < 10) => quality_score[c] = RatMul(base, Fin(7, 10))
                /\ (10 <= n /\ n < 100) => quality_score[c] = base

\* C6: the batch [5.0, NaN, 7.0, Infinity] never fails, and ends as a success
\* with cleaned batch [5.0, 7.0], average 6.0, median 6.0, min 5.0, max 7.0,
\* count 2 and quality score 3.5 (= 10 x 2/4 x 0.7).
ScenarioB == <<Fin(5, 1), NaN, Fin(7, 1), PInf>>

C6_ScenarioB ==
    \A c \in calls :
        request[c].values = ScenarioB =>
            /\ code[c] = "OK"
            /\ Done(c) =>
                /\ clean_values[c] = <<Fin(5, 1), Fin(7, 1)>>
                /\ response[c].average = Fin(6, 1)
                /\ response[c].median = Fin(6, 1)
                /\ response[c].min = Fin(5, 1)
                /\ response[c].max = Fin(7, 1)
                /\ response[c].count = 2
                /\ quality_score[c] = Fin(7, 2)

C6_Witness ==
    \E c \in calls : Done(c) /\ request[c].values = ScenarioB

QualityApplied == q_score # Unbound

\* C7: whenever 0 <= len(values) <= original_count, the score returned by
\* _calculate_data_quality is at least 0.0 and at most 10.0, the batches of
\* 100 values and more (which get the x1.1 bonus) included.
C7_QualityInRange ==
    QualityApplied =>
        /\ FloatLeq(Fin(0, 1), q_score)
        /\ FloatLeq(q_score, Fin(10, 1))

\* A full batch of 100 values or more: 10 x 1 x 1.1 = 11 before the clamp.
C7_Witness ==
    /\ QualityApplied
    /\ q_args.n >= 100
    /\ q_args.n = q_args.original_count
    /\ q_score = Fin(10, 1)

\* C8: with 100 clean values or more the score is
\* min(10.0, 10.0 x (len(values) / original_count) x 1.1), which is 10.0 for 150
\* values out of 150; with fewer than 100 the score is the complete score
\* times 0.7 (fewer than 10 values) or times nothing: no bonus.
C8_VolumeBonus ==
    QualityApplied =>
        LET n == q_args.n
            base == CompleteScore(n, q_args.original_count)
            boosted == RatMul(base, Fin(11, 10))
        IN  /\ n >= 100 =>
                q_score = IF FloatLess(Fin(10, 1), boosted) THEN Fin(10, 1) ELSE boosted
            /\ (n = 150 /\ q_args.original_count = 150) => q_score = Fin(10, 1)
            /\ (10 <= n /\ n < 100) => q_score = base
            /\ n < 10 => q_score = RatMul(base, Fin(7, 10))

\* 150 values out of 150: 11.0 before the clamp of the bonus, 10.0 after it.
C8_Witness ==
    /\ QualityApplied
    /\ q_args = [n |-> 150, original_count |-> 150]
    /\ q_score = Fin(10, 1)

\* What a call returns when it runs alone, as a function of its request and
\* of the interpreter: the handler from top to bottom.
Alone(req, rt) ==
    LET cv == Clean(req.values)
    IN  IF req.values = <<>>
        THEN [code |-> "INVALID_ARGUMENT",
              details |-> "No values provided for analysis",
              response |-> EmptyResponse]
        ELSE IF cv = <<>>
        THEN [code |-> "INVALID_ARGUMENT",
              details |-> "No valid values found after cleaning data",
              response |-> EmptyResponse]
        ELSE IF Len(cv) > 1 /\ StdevRaises(cv, rt)
        THEN [code |-> "INTERNAL",
              details |-> "Analysis failed: OverflowError",
              response |-> EmptyResponse]
        ELSE [code |-> "OK", details |-> "", response |-> StatisticsOf(req.values)]

Outcome(c) == [code |-> code[c], details |-> details[c], response |-> response[c]]

\* C9: in every interleaving of the calls on the pool, a call that has ended
\* has the outcome it would have had alone, a function of its own request; so
\* two ended calls with the same batch have the same status, detail and
\* statistics.
C9_CallsDoNotInteract ==
    /\ \A c \in calls : Done(c) => Outcome(c) = Alone(request[c], runtime)
    /\ \A c1 \in calls : \A c2 \in calls :
           (Done(c1) /\ Done(c2) /\ request[c1].values = request[c2].values) =>
               /\ code[c1] = code[c2]
               /\ details[c1] = details[c2]
               /\ response[c1] = response[c2]

\* Two calls with the same batch, both ended as successes.
C9_Witness ==
    \E c1 \in calls : \E c2 \in calls :
        /\ c1 # c2
        /\ Succeeded(c1) /\ Succeeded(c2)
        /\ request[c1].values = request[c2].values

\* C10 as stated: the message of a successful call satisfies
\* min <= average <= max and min <= median <= max, min and max being the
\* extrema of the cleaned batch.
C10_MeanAndMedianWithinExtrema ==
    \A c \in calls :
        Succeeded(c) =>
            /\ \A i \in 1..Len(clean_values[c]) :
                   /\ FloatLeq(response[c].min, clean_values[c][i])
                   /\ FloatLeq(clean_values[c][i], response[c].max)
            /\ FloatLeq(response[c].min, response[c].average)
            /\ FloatLeq(response[c].average, response[c].max)
            /\ FloatLeq(response[c].min, response[c].median)
            /\ FloatLeq(response[c].median, response[c].max)

IsFinite(v) == v.k = "fin"
\* The number of readings of vs that are NaN or an infinity.
Discarded(vs) == Cardinality({i \in 1..Len(vs) : ~IsFinite(vs[i])})

\* C11: once the cleaning step has run, the cleaned batch is the subsequence
\* of the finite readings of the request in their order (zero, negative and
\* extreme finite readings kept), and its length plus the number of NaN and
\* infinite readings is the length of the request; the count a successful
\* call reports is the length of the cleaned batch, and the quality score is
\* the one of that length against the length of the request (batches of fewer
\* than 10 values: 10 x cleaned / original x 0.7).
C11_CleaningKeepsFiniteReadings ==
    \A c \in calls :
        LET original == request[c].values
        IN  /\ "clean_values" \in bound[c] =>
                /\ clean_values[c] = SelectSeq(original, IsFinite)
                /\ Len(clean_values[c]) + Discarded(original) = Len(original)
            /\ "count" \in bound[c] => count[c] = Len(clean_values[c])
            /\ Succeeded(c) => response[c].count = Len(SelectSeq(original, IsFinite))
            /\ ("quality_score" \in bound[c] /\ Len(original) < 10) =>
                   quality_score[c] =
                       RatMul(CompleteScore(Len(clean_values[c]), Len(original)),
                              Fin(7, 10))

\* A success on a batch with a zero, a negative extreme reading, a NaN and an
\* infinity: two kept, two discarded.
C11_Witness ==
    \E c \in calls :
        /\ Succeeded(c)
        /\ request[c].values = <<Fin(0, 1), NaN, Fin(-FloatMax, 1), PInf>>
        /\ clean_values[c] = <<Fin(0, 1), Fin(-FloatMax, 1)>>
        /\ response[c].count = 2
        /\ quality_score[c] = Fin(7, 2)

\* The fault the handler can meet after its two input checks: more than one
\* clean value, and statistics.stdev raising OverflowError on them.  The
\* other steps named by the claim (coefficient of variation, quality score,
\* response) hold no operation that raises: the division is guarded by
\* avg != 0 and float arithmetic overflows to an infinity.
Faults(c) ==
    LET cv == Clean(request[c].values)
    IN  Len(cv) > 1 /\ StdevRaises(cv, runtime)

\* C12: a call that meets a fault after the two input checks goes no further
\* (no coefficient of variation, no quality score, no response assembled) and
\* ends with status INTERNAL, a detail text and the all-default message, never
\* with INVALID_ARGUMENT or OK; and INTERNAL is the status of no other call.
C12_FaultIsInternal ==
    \A c \in calls :
        /\ \/ /\ pc[c] \notin {"insights", "quality", "respond"}
              /\ bound[c] \cap {"data_range", "coefficient_of_variation",
                                "quality_score"} = {}
              /\ Done(c) => /\ code[c] = "INTERNAL"
                            /\ details[c] # ""
                            /\ response[c] = EmptyResponse
           \/ ~Faults(c)
        /\ code[c] = "INTERNAL" =>
            /\ Faults(c)
            /\ Done(c)
            /\ {"values", "clean_values", "avg", "median"} \subseteq bound[c]

\* The two extreme readings of opposite sign: the variance is outside the
\* finite range under either interpreter.
C12_Witness ==
    \E c \in calls :
        /\ Done(c)
        /\ runtime = "exact_sqrt"
        /\ request[c].values = <<Fin(-FloatMax, 1), NaN, Fin(FloatMax, 1)>>
        /\ code[c] = "INTERNAL"
====
